---- MODULE Spec2Model ----
(***************************************************************************)
(* Model of internal/envoy/envoy.go: the Server that supervises an envoy   *)
(* child process.  NewServer, onConfigChange/update, run, writeConfig,     *)
(* Close and runProcessCollector are modelled as threads whose steps are   *)
(* the statements of the Go code, serialised by the mutex srv.mu (Spec).   *)
(* A handleLogs goroutine on its pipe (SpecRelay) and update's path to the *)
(* bootstrap build over many configurations (SpecBoot) are specified apart.*)
(***************************************************************************)
EXTENDS Integers, Sequences, FiniteSets, TLC

\* ------------------------------------------------------------------ bounds

\* Number of change notifications the configuration source delivers.
MaxChanges == 2

\* ------------------------------------------------------------ thread names

Ctor == "ctor"       \* the goroutine calling NewServer
Closer == "closer"   \* the goroutine calling Close
Sampler == "sampler" \* go srv.runProcessCollector()
Callbacks == {"cb1"} \* goroutines in which the source invokes srv.onConfigChange
Updaters == {Ctor} \cup Callbacks
Threads == Updaters \cup {Closer, Sampler}
Free == "free"       \* srv.mu is not held

\* ------------------------------------------------------- configuration data

\* The configurations the source can hold (config.Config.Options fields that
\* update and buildBootstrapConfig read).  An address is a sequence of
\* characters, the empty sequence when it is not set.
ConfigTable ==
  << [Services |-> "all",   ProxyLogLevel |-> "",     LogLevel |-> "",
      TracingProvider |-> "",        EnvoyAdminAddress |-> "127.0.0.1:9901",
      TracingDatadogAddress |-> << >>],
     [Services |-> "all",   ProxyLogLevel |-> "",     LogLevel |-> "debug",
      TracingProvider |-> "",        EnvoyAdminAddress |-> "127.0.0.1:9901",
      TracingDatadogAddress |-> << >>],
     [Services |-> "proxy", ProxyLogLevel |-> "info", LogLevel |-> "debug",
      TracingProvider |-> "datadog", EnvoyAdminAddress |-> "127.0.0.1:9901",
      TracingDatadogAddress |-> << >>],
     [Services |-> "all",   ProxyLogLevel |-> "",     LogLevel |-> "",
      TracingProvider |-> "bogus",   EnvoyAdminAddress |-> "127.0.0.1:9901",
      TracingDatadogAddress |-> << >>],
     [Services |-> "proxy", ProxyLogLevel |-> "info", LogLevel |-> "",
      TracingProvider |-> "datadog", EnvoyAdminAddress |-> "nonsense",
      TracingDatadogAddress |-> << >>] >>

Configs == 1 .. Len(ConfigTable)

\* The zero value of config.Options, as far as it is read.
NoConfig ==
  [Services |-> "", ProxyLogLevel |-> "", LogLevel |-> "", TracingProvider |-> "",
   EnvoyAdminAddress |-> "", TracingDatadogAddress |-> << >>]

\* The nil *exec.Cmd; a started command is identified by its process id > 0.
NoCmd == 0

\* The zero value of serverOptions (srv.options right after &Server{...}).
ZeroOptions ==
  [services |-> "", logLevel |-> "",
   tracingOptions |-> [Provider |-> "", DatadogAddress |-> << >>]]

\* firstNonEmpty returns the first of its arguments that is not "".
firstNonEmpty(a, b, c) == IF a # "" THEN a ELSE IF b # "" THEN b ELSE c

\* config.NewTracingOptions: an unknown provider is an error.
NewTracingOptions(o) ==
  IF o.TracingProvider \in {"", "datadog", "jaeger", "zipkin"}
    THEN [err |-> FALSE, val |-> [Provider |-> o.TracingProvider,
                                  DatadogAddress |-> o.TracingDatadogAddress]]
    ELSE [err |-> TRUE,  val |-> [Provider |-> "", DatadogAddress |-> << >>]]

\* The serverOptions literal built in update.
\* (Variant: the log level without its "debug" default.)
ProjectOptionsNoDefault(o) ==
  [services       |-> o.Services,
   logLevel       |-> firstNonEmpty(o.ProxyLogLevel, o.LogLevel, ""),
   tracingOptions |-> NewTracingOptions(o).val]
ProjectOptions(o) ==
  [services       |-> o.Services,
   logLevel       |-> firstNonEmpty(o.ProxyLogLevel, o.LogLevel, "debug"),
   tracingOptions |-> NewTracingOptions(o).val]

\* cmp.Equal(srv.options, options, cmp.AllowUnexported(serverOptions{})).
\* (Variant: the two structs compared by identity, never equal.)
CmpEqualByReference(a, b) == FALSE
CmpEqual(a, b) == a = b

\* ParseAddress: host:port strings parse, anything else is an error.
ParseAddress(s) ==
  IF s = "127.0.0.1:9901" THEN [err |-> FALSE, host |-> "127.0.0.1", port |-> 9901]
  ELSE [err |-> TRUE, host |-> "", port |-> 0]

\* strconv.Atoi on the control-plane port given to NewServer.
Atoi(s) ==
  IF s = "5443" THEN [err |-> FALSE, val |-> 5443] ELSE [err |-> TRUE, val |-> 0]

\* telemetry.ServiceName of the active service set.
ServiceName(services) == IF services = "all" THEN "pomerium" ELSE "pomerium-" \o services

\* The index of the last ":" in s at or before i, 0 if there is none.
RECURSIVE LastColon(_, _)
LastColon(s, i) ==
  IF i = 0 THEN 0 ELSE IF s[i] = ":" THEN i ELSE LastColon(s, i - 1)

\* net.SplitHostPort of an address without brackets: host and port are what
\* is before and after the last colon; no colon at all, or a colon in the
\* host, is an error.
SplitHostPort(s) ==
  LET i == LastColon(s, Len(s))
      host == SubSeq(s, 1, i - 1)
  IN IF i = 0 \/ LastColon(host, Len(host)) # 0
       THEN [err |-> TRUE, host |-> << >>, port |-> << >>]
       ELSE [err |-> FALSE, host |-> host, port |-> SubSeq(s, i + 1, Len(s))]

Digits == <<"0", "1", "2", "3", "4", "5", "6", "7", "8", "9">>
DigitValue(c) == (CHOOSE d \in 1 .. 10 : Digits[d] = c) - 1

\* The number a sequence of decimal digits denotes.
RECURSIVE Decimal(_)
Decimal(p) ==
  IF p = << >> THEN 0
  ELSE 10 * Decimal(SubSeq(p, 1, Len(p) - 1)) + DigitValue(p[Len(p)])

\* A sequence of digits without its leading zeros.
RECURSIVE StripZeros(_)
StripZeros(p) == IF p # << >> /\ p[1] = "0" THEN StripZeros(Tail(p)) ELSE p

\* Whether the numeral a is at most the numeral b of the same length.
RECURSIVE NumeralLeq(_, _)
NumeralLeq(a, b) ==
  IF a = << >> THEN TRUE
  ELSE IF DigitValue(a[1]) # DigitValue(b[1]) THEN DigitValue(a[1]) < DigitValue(b[1])
  ELSE NumeralLeq(Tail(a), Tail(b))

\* Whether a sequence of digits denotes a number below 2^32 (the comparison
\* is made on the digits: 2^32 - 1 is 4294967295).
FitsUint32(p) ==
  LET q == StripZeros(p)
  IN \/ Len(q) < 10
     \/ Len(q) = 10 /\ NumeralLeq(q, <<"4", "2", "9", "4", "9", "6", "7", "2", "9", "5">>)

\* strconv.ParseUint(p, 10, 32): a non-empty sequence of decimal digits whose
\* value fits 32 bits; anything else is an error.
ParseUint32(p) ==
  IF p = << >> \/ \E i \in 1 .. Len(p) : \A d \in 1 .. 10 : Digits[d] # p[i]
    THEN [err |-> TRUE, val |-> 0]
  ELSE IF ~FitsUint32(p) THEN [err |-> TRUE, val |-> 0]
  ELSE [err |-> FALSE, val |-> Decimal(p)]

\* The address every endpoint has unless it is overridden.
Localhost == <<"127.0.0.1">>

\* The socket address of the datadog-apm cluster: 127.0.0.1:8126, the host
\* replaced when DatadogAddress splits into host and port, the port replaced
\* when in addition the port parses.
CollectorAddress(datadogAddress) ==
  LET hp == SplitHostPort(datadogAddress)
      pv == ParseUint32(hp.port)
  IN IF datadogAddress = << >> \/ hp.err
       THEN [address |-> Localhost, port |-> 8126]
       ELSE [address |-> hp.host, port |-> IF pv.err THEN 8126 ELSE pv.val]

\* staticCfg.Clusters: the control-plane cluster, and the datadog-apm cluster
\* when the tracing provider of srv.options is datadog.
\* (Variant: the datadog-apm cluster never appended.)
StaticClustersControlPlaneOnly(options, controlPlanePort) ==
  << [name |-> "pomerium-control-plane-grpc",
      endpoint |-> [address |-> Localhost, port |-> controlPlanePort]] >>
StaticClusters(options, controlPlanePort) ==
  << [name |-> "pomerium-control-plane-grpc",
      endpoint |-> [address |-> Localhost, port |-> controlPlanePort]] >>
  \o IF options.tracingOptions.Provider = "datadog"
       THEN << [name |-> "datadog-apm",
                endpoint |-> CollectorAddress(options.tracingOptions.DatadogAddress)] >>
       ELSE << >>

\* buildBootstrapConfig: the document is built from cfg (admin block), the
\* control-plane port and srv.options (tracing provider, services).
buildBootstrapConfig(o, options, port) ==
  LET adminAddr == ParseAddress(o.EnvoyAdminAddress)
      controlPlanePort == Atoi(port)
  IN IF adminAddr.err THEN [err |-> TRUE, doc |-> [state |-> "none"]]
     ELSE IF controlPlanePort.err THEN [err |-> TRUE, doc |-> [state |-> "none"]]
     ELSE [err |-> FALSE,
           doc |-> [state |-> "complete",
                    admin |-> [host |-> adminAddr.host, port |-> adminAddr.port],
                    controlPlanePort |-> controlPlanePort.val,
                    clusters |-> StaticClusters(options, controlPlanePort.val),
                    service |-> ServiceName(options.services)]]

\* Contents of a file that does not exist / holds a truncated document.
Absent == [state |-> "absent"]
Partial == [state |-> "partial"]
NoDoc == [state |-> "none"]

\* atomic.WriteFile(path, data): the data goes to a temporary file which is
\* renamed over path; when it fails the file at path is what it was.
\* (Variant: the data written in place, a failure leaving a truncated file.)
WriteFileInPlace(old, doc, ok) == IF ok THEN doc ELSE Partial
AtomicWriteFile(old, doc, ok) == IF ok THEN doc ELSE old

\* sha256 of the binary found on the search path, hex encoded.
Binaries == {"envoy-1.17.1", "envoy-tampered"}
Sha256Hex(b) == IF b = "envoy-1.17.1" THEN "5f2c" ELSE "a91e"

\* ------------------------------------------------------------------- state

VARIABLES
  pc,            \* position of every thread in its code
  mu,            \* srv.mu: Free or the thread holding it
  cfg,           \* update's argument cfg, per thread in update (0: none)
  lopt,          \* update's local `options`
  ldoc,          \* writeConfig's local confBytes
  lcmd,          \* run's local cmd (its arguments)
  res,           \* how far the current update call got / why it returned
  srvOptions,    \* srv.options
  srvCmd,        \* srv.cmd (NoCmd or the pid of its started process)
  restartEpoch,  \* srv.restartEpoch
  grpcPort,      \* srv.grpcPort
  GOOS,          \* runtime.GOOS
  Checksum,      \* the package variable Checksum
  binary,        \* the envoy binary on the search path
  ctorErr,       \* the error NewServer returned ("" while none)
  registered,    \* src.OnConfigChange(srv.onConfigChange) has been called
  srcCfg,        \* the configuration the source holds (src.GetConfig())
  changes,       \* number of change notifications delivered so far
  configFile,    \* contents of <wd>/envoy-config.yaml
  baseIDFile,    \* whether the base-id file exists (readBaseID's ok)
  children,      \* every process cmd.Start() started, in order
  releaseCalls,  \* pids on which Process.Release() was called
  killCalls,     \* pids on which Process.Kill() was called
  samplerPid,    \* runProcessCollector's local pid
  killRet,       \* what Process.Kill() returned to the running Close
  closeRet,      \* the error value the running Close is about to return
  closed,        \* a call of Close has returned
  lateCall,      \* per callback: Close had returned when the source invoked it
  pre,           \* the supervisor state when the lock holder locked srv.mu
  rpc,           \* position of a handleLogs goroutine in its code
  bo,            \* handleLogs' bo: NextBackOff calls since the last Reset
  reads,         \* number of s.ReadString('\n') calls handleLogs has made
  lastRead,      \* what the last s.ReadString('\n') returned
  lastOut,       \* the log records handleLogs emitted for it
  pipe,          \* who holds the write end of the pipe handleLogs reads
  bootCfg,       \* the config.Options an update on its own is applied to
  bootOut        \* what writeConfig's build returned in it

vars == << pc, mu, cfg, lopt, ldoc, lcmd, res, srvOptions, srvCmd, restartEpoch,
           grpcPort, GOOS, Checksum, binary, ctorErr, registered, srcCfg, changes,
           configFile, baseIDFile, children, releaseCalls, killCalls, samplerPid,
           killRet, closeRet, closed, lateCall, pre,
           rpc, bo, reads, lastRead, lastOut, pipe, bootCfg, bootOut >>

\* Variables NewServer's parameters and the platform fix once and for all.
envVars == << grpcPort, GOOS, Checksum, binary >>
\* Locals of update / writeConfig / run.
localVars == << cfg, lopt, ldoc, lcmd, res, lateCall >>
\* The fields of Server guarded by srv.mu.
srvVars == << srvOptions, srvCmd, restartEpoch >>
\* The operating system's view: files and processes.
osVars == << configFile, baseIDFile, children, releaseCalls, killCalls >>
\* Close's result and whether it has returned.
closeVars == << killRet, closeRet, closed >>
\* The configuration source.
srcVars == << registered, srcCfg, changes >>
\* Everything above: the supervisor, its threads and its environment.
serverVars == << pc, mu, localVars, srvVars, envVars, ctorErr, srcVars, osVars,
                samplerPid, closeVars, pre >>
\* One handleLogs goroutine and its pipe.
relayVars == << rpc, bo, reads, lastRead, lastOut, pipe >>
\* One application of the bootstrap builder.
bootVars == << bootCfg, bootOut >>

NoArgs == [baseID |-> "none", restartEpoch |-> -1, logLevel |-> "", pid |-> 0]
NoPre == [set |-> FALSE]
\* No ReadString call has returned yet / no build has been made yet.
NoRead == [kind |-> "none", text |-> << >>]
NoBuild == [err |-> FALSE, doc |-> NoDoc]

\* What the lock holder remembers of the state it found.
Snapshot ==
  [set |-> TRUE, cmd |-> srvCmd, options |-> srvOptions, epoch |-> restartEpoch,
   file |-> configFile, spawned |-> Len(children),
   released |-> releaseCalls, killed |-> killCalls]

InitServer ==
  /\ pc = [t \in Threads |->
             IF t = Ctor THEN "new" ELSE IF t = Sampler THEN "off" ELSE "idle"]
  /\ mu = Free
  /\ cfg = [t \in Updaters |-> 0]
  /\ lopt = [t \in Updaters |-> ZeroOptions]
  /\ ldoc = [t \in Updaters |-> NoDoc]
  /\ lcmd = [t \in Updaters |-> NoArgs]
  /\ res = [t \in Updaters |-> ""]
  /\ srvOptions = ZeroOptions
  /\ srvCmd = NoCmd
  /\ restartEpoch = 0
  /\ grpcPort \in {"5443", "grpc"}
  /\ GOOS \in {"linux", "darwin"}
  /\ Checksum \in {"", "5f2c"}
  /\ binary \in Binaries
  /\ ctorErr = ""
  /\ registered = FALSE
  /\ srcCfg \in Configs
  /\ changes = 0
  /\ configFile = Absent
  /\ baseIDFile \in BOOLEAN
  /\ children = << >>
  /\ releaseCalls = {}
  /\ killCalls = {}
  /\ samplerPid = 0
  /\ killRet = ""
  /\ closeRet = ""
  /\ closed = FALSE
  /\ lateCall = [t \in Callbacks |-> FALSE]
  /\ pre = NoPre

\* No handleLogs goroutine is observed.
RelayOff ==
  /\ rpc = "off"
  /\ bo = 0
  /\ reads = 0
  /\ lastRead = NoRead
  /\ lastOut = << >>
  /\ pipe = "none"

\* No bootstrap build is observed on its own.
BootOff ==
  /\ bootCfg = NoConfig
  /\ bootOut = NoBuild

\* The state after process start: nothing constructed yet.
Init == InitServer /\ RelayOff /\ BootOff

\* ------------------------------------------------------------------ srv.mu

\* srv.mu.Lock() by thread t: blocks until the mutex is free.
\* (Variant: a lock that does not wait for the holder.)
MuLockNoWait(t) == mu' = t
MuLock(t) == mu = Free /\ mu' = t

\* srv.mu.Unlock() by thread t.
MuUnlock(t) == mu' = Free

\* ---------------------------------------------------------------- NewServer

\* The hex digest NewServer compares with Checksum, or the error that stops it.
\* (Variant: a mismatch that is only logged.)
VerifyChecksumWarnOnly(sum, bin, readOK) == ""
VerifyChecksum(sum, bin, readOK) ==
  IF sum = "" THEN ""
  ELSE IF ~readOK THEN "error reading envoy binary for checksum verification"
  ELSE IF sum # Sha256Hex(bin) THEN "invalid envoy binary"
  ELSE ""

\* NewServer up to and including src.OnConfigChange(srv.onConfigChange):
\* working directory, binary lookup, checksum, &Server{...}, the collector
\* goroutine and the registration of the change callback.
NewServer ==
  /\ pc[Ctor] = "new"
  /\ \E mkdirOK \in BOOLEAN, lookPathOK \in BOOLEAN, readOK \in BOOLEAN :
       LET err == IF ~mkdirOK
                    THEN "error creating temporary working directory for envoy"
                  ELSE IF ~lookPathOK THEN "no envoy binary found"
                  ELSE VerifyChecksum(Checksum, binary, readOK)
       IN /\ ctorErr' = err
          /\ IF err # ""
               THEN /\ pc' = [pc EXCEPT ![Ctor] = "failed"]
                    /\ registered' = FALSE
               ELSE /\ pc' = [pc EXCEPT ![Ctor] = "getconfig", ![Sampler] = "start"]
                    /\ registered' = TRUE
  /\ UNCHANGED << mu, localVars, srvVars, envVars, srcCfg, changes, osVars,
                  samplerPid, closeVars, pre, relayVars, bootVars >>

\* srv.onConfigChange(src.GetConfig()): the argument is evaluated, then
\* update is entered.
GetConfig ==
  /\ pc[Ctor] = "getconfig"
  /\ pc' = [pc EXCEPT ![Ctor] = "update_lock"]
  /\ cfg' = [cfg EXCEPT ![Ctor] = srcCfg]
  /\ UNCHANGED << lateCall, mu, lopt, ldoc, lcmd, res, srvVars, envVars, ctorErr, srcVars,
                  osVars, samplerPid, closeVars, pre, relayVars, bootVars >>

\* The configuration source changes its configuration (possibly to an equal
\* one) and invokes the registered callback with it, in goroutine t.  What
\* the source did before the registration is Init's choice of srcCfg.
SourceChange ==
  /\ changes < MaxChanges
  /\ registered
  /\ \E c \in Configs, t \in Callbacks :
       /\ pc[t] = "idle"
       /\ srcCfg' = c
       /\ changes' = changes + 1
       /\ pc' = [pc EXCEPT ![t] = "update_lock"]
       /\ cfg' = [cfg EXCEPT ![t] = c]
       /\ lateCall' = [lateCall EXCEPT ![t] = closed]
  /\ UNCHANGED << mu, lopt, ldoc, lcmd, res, srvVars, envVars, ctorErr, registered,
                  osVars, samplerPid, closeVars, pre, relayVars, bootVars >>

\* ------------------------------------------------------------------- update

\* Where a thread goes when update returns: onConfigChange has no result, so
\* NewServer goes on to return the Server and a callback ends.
\* (Variant: NewServer gives up when its own update call failed.)
AfterUpdateReturnError(t) ==
  IF t # Ctor THEN "idle"
  ELSE IF res[t] \in {"", "started", "no config changes detected"} THEN "constructed"
  ELSE "failed"
AfterUpdate(t) == IF t = Ctor THEN "constructed" ELSE "idle"

\* update from srv.mu.Lock() to srv.options = options: tracing options, the
\* serverOptions projection and the change-detection gate.
UpdateEnter(t) ==
  /\ pc[t] = "update_lock"
  /\ MuLock(t)
  /\ pre' = Snapshot
  /\ LET o == ConfigTable[cfg[t]]
         tracingOptions == NewTracingOptions(o)
         options == ProjectOptions(o)
     IN IF tracingOptions.err
          THEN /\ res' = [res EXCEPT ![t] = "invalid tracing config"]
               /\ pc' = [pc EXCEPT ![t] = "update_unlock"]
               /\ UNCHANGED << lateCall, lopt, srvOptions >>
        ELSE IF CmpEqual(srvOptions, options)
          THEN /\ res' = [res EXCEPT ![t] = "no config changes detected"]
               /\ lopt' = [lopt EXCEPT ![t] = options]
               /\ pc' = [pc EXCEPT ![t] = "update_unlock"]
               /\ UNCHANGED srvOptions
        ELSE /\ lopt' = [lopt EXCEPT ![t] = options]
             /\ srvOptions' = options
             /\ pc' = [pc EXCEPT ![t] = "write_config"]
             /\ UNCHANGED res
  /\ UNCHANGED << lateCall, cfg, ldoc, lcmd, srvCmd, restartEpoch, envVars, ctorErr,
                  srcVars, osVars, samplerPid, closeVars, relayVars, bootVars >>

\* update's handling of writeConfig's error: log and return, else go on to run.
\* (Variant: the error logged without the return.)
AfterWriteConfigIgnoreErr(failed) == "run_prepare"
AfterWriteConfig(failed) == IF failed THEN "update_unlock" ELSE "run_prepare"

\* writeConfig: build the bootstrap document, return the builder's error if
\* any, else atomic.WriteFile(cfgPath, bytes.NewReader(confBytes)).
writeConfig(t) ==
  /\ pc[t] = "write_config"
  /\ LET b == buildBootstrapConfig(ConfigTable[cfg[t]], srvOptions, grpcPort)
     IN IF b.err
          THEN /\ res' = [res EXCEPT ![t] = "failed to build envoy config"]
               /\ pc' = [pc EXCEPT ![t] = AfterWriteConfig(TRUE)]
               /\ UNCHANGED << lateCall, ldoc, configFile >>
          ELSE \E ok \in BOOLEAN :
                 /\ ldoc' = [ldoc EXCEPT ![t] = b.doc]
                 /\ configFile' = AtomicWriteFile(configFile, b.doc, ok)
                 /\ res' = [res EXCEPT ![t] =
                              IF ok THEN @ ELSE "failed to write envoy config"]
                 /\ pc' = [pc EXCEPT ![t] = AfterWriteConfig(~ok)]
  /\ UNCHANGED << lateCall, mu, cfg, lopt, lcmd, srvVars, envVars, ctorErr, srcVars,
                  baseIDFile, children, releaseCalls, killCalls,
                  samplerPid, closeVars, pre, relayVars, bootVars >>

\* ---------------------------------------------------------------------- run

\* The arguments run gives the child: with a persisted base id --base-id and
\* --restart-epoch srv.restartEpoch, without one --use-dynamic-base-id and
\* --base-id-path.
\* (Variant: --restart-epoch passed in both cases.)
ArgsEpochAlways(haveBaseID, epoch, level) ==
  [baseID |-> IF haveBaseID THEN "persisted" ELSE "dynamic",
   restartEpoch |-> epoch, logLevel |-> level, pid |-> 0]
Args(haveBaseID, epoch, level) ==
  IF haveBaseID
    THEN [baseID |-> "persisted", restartEpoch |-> epoch, logLevel |-> level, pid |-> 0]
    ELSE [baseID |-> "dynamic", restartEpoch |-> -1, logLevel |-> level, pid |-> 0]

\* run up to cmd.Start(): args, readBaseID (the epoch is bumped when a base
\* id is persisted), exec.Command, and the two pipes, each handed to a
\* handleLogs goroutine; a pipe error makes run return.
RunPrepare(t) ==
  /\ pc[t] = "run_prepare"
  /\ lcmd' = [lcmd EXCEPT ![t] = Args(baseIDFile, restartEpoch, srvOptions.logLevel)]
  /\ restartEpoch' = IF baseIDFile THEN restartEpoch + 1 ELSE restartEpoch
  /\ \E stderrOK \in BOOLEAN, stdoutOK \in BOOLEAN :
       IF ~stderrOK
         THEN /\ pc' = [pc EXCEPT ![t] = "update_unlock"]
              /\ res' = [res EXCEPT ![t] = "error creating stderr pipe for envoy"]
       ELSE IF ~stdoutOK
         THEN /\ pc' = [pc EXCEPT ![t] = "update_unlock"]
              /\ res' = [res EXCEPT ![t] = "error creating stdout pipe for envoy"]
       ELSE /\ pc' = [pc EXCEPT ![t] = "run_start"]
            /\ UNCHANGED res
  /\ UNCHANGED << lateCall, mu, cfg, lopt, ldoc, srvOptions, srvCmd, envVars, ctorErr,
                  srcVars, osVars, samplerPid, closeVars, pre,
                  relayVars, bootVars >>

\* The record of a started child: its pid, its arguments, the document the
\* update call that started it built, what the config file held when it
\* started and the handle that was current.
Child(t, pid) ==
  [pid |-> pid, args |-> [lcmd[t] EXCEPT !.pid = pid],
   doc |-> ldoc[t], file |-> configFile, prev |-> srvCmd]

\* err = cmd.Start(): on error run returns it, touching nothing else.
\* (Variant: the previous process released before cmd.Start() is called.)
RunStartAfterRelease(t) ==
  /\ pc[t] = "run_start"
  /\ releaseCalls' = IF srvCmd # NoCmd THEN releaseCalls \cup {srvCmd} ELSE releaseCalls
  /\ \E ok \in BOOLEAN :
       IF ok
         THEN LET pid == Len(children) + 1
              IN /\ children' = Append(children, Child(t, pid))
                 /\ lcmd' = [lcmd EXCEPT ![t].pid = pid]
                 /\ pc' = [pc EXCEPT ![t] = "run_release"]
                 /\ UNCHANGED res
         ELSE /\ pc' = [pc EXCEPT ![t] = "update_unlock"]
              /\ res' = [res EXCEPT ![t] = "error starting envoy"]
              /\ UNCHANGED << lateCall, children, lcmd >>
  /\ UNCHANGED << lateCall, mu, cfg, lopt, ldoc, srvVars, envVars, ctorErr, srcVars,
                  configFile, baseIDFile, killCalls,
                  samplerPid, closeVars, pre, relayVars, bootVars >>
RunStart(t) ==
  /\ pc[t] = "run_start"
  /\ \E ok \in BOOLEAN :
       IF ok
         THEN LET pid == Len(children) + 1
              IN /\ children' = Append(children, Child(t, pid))
                 /\ lcmd' = [lcmd EXCEPT ![t].pid = pid]
                 /\ pc' = [pc EXCEPT ![t] = "run_release"]
                 /\ UNCHANGED res
         ELSE /\ pc' = [pc EXCEPT ![t] = "update_unlock"]
              /\ res' = [res EXCEPT ![t] = "error starting envoy"]
              /\ UNCHANGED << lateCall, children, lcmd >>
  /\ UNCHANGED << lateCall, mu, cfg, lopt, ldoc, srvVars, envVars, ctorErr, srcVars,
                  configFile, baseIDFile, releaseCalls, killCalls,
                  samplerPid, closeVars, pre, relayVars, bootVars >>

\* Release of the previous process (its error is only logged), srv.cmd = cmd
\* and return nil.
\* (Variant: srv.cmd overwritten without the release of the previous process.)
RunReleaseForgetPrevious(t) ==
  /\ pc[t] = "run_release"
  /\ srvCmd' = lcmd[t].pid
  /\ res' = [res EXCEPT ![t] = "started"]
  /\ pc' = [pc EXCEPT ![t] = "update_unlock"]
  /\ UNCHANGED << lateCall, mu, cfg, lopt, ldoc, lcmd, srvOptions, restartEpoch, envVars,
                  ctorErr, srcVars, configFile, baseIDFile, children, killCalls,
                  samplerPid, closeVars, pre, releaseCalls, relayVars, bootVars >>
RunRelease(t) ==
  /\ pc[t] = "run_release"
  /\ releaseCalls' = IF srvCmd # NoCmd THEN releaseCalls \cup {srvCmd} ELSE releaseCalls
  /\ srvCmd' = lcmd[t].pid
  /\ res' = [res EXCEPT ![t] = "started"]
  /\ pc' = [pc EXCEPT ![t] = "update_unlock"]
  /\ UNCHANGED << lateCall, mu, cfg, lopt, ldoc, lcmd, srvOptions, restartEpoch, envVars,
                  ctorErr, srcVars, configFile, baseIDFile, children, killCalls,
                  samplerPid, closeVars, pre, relayVars, bootVars >>

\* The deferred srv.mu.Unlock() of update, and its return.
UpdateUnlock(t) ==
  /\ pc[t] = "update_unlock"
  /\ MuUnlock(t)
  /\ pc' = [pc EXCEPT ![t] = AfterUpdate(t)]
  /\ cfg' = [cfg EXCEPT ![t] = 0]
  /\ lopt' = [lopt EXCEPT ![t] = ZeroOptions]
  /\ ldoc' = [ldoc EXCEPT ![t] = NoDoc]
  /\ lcmd' = [lcmd EXCEPT ![t] = NoArgs]
  /\ res' = [res EXCEPT ![t] = ""]
  /\ lateCall' = [c \in Callbacks |-> IF c = t THEN FALSE ELSE lateCall[c]]
  /\ pre' = NoPre
  /\ UNCHANGED << srvVars, envVars, ctorErr, srcVars, osVars, samplerPid,
                  closeVars, relayVars, bootVars >>

\* A child started with --use-dynamic-base-id --base-id-path writes the base
\* id it chose to that path, where the next readBaseID finds it.
ChildWritesBaseID ==
  /\ ~baseIDFile
  /\ \E i \in 1 .. Len(children) : children[i].args.baseID = "dynamic"
  /\ baseIDFile' = TRUE
  /\ UNCHANGED << pc, mu, localVars, srvVars, envVars, ctorErr, srcVars,
                  configFile, children, releaseCalls, killCalls,
                  samplerPid, closeVars, pre, relayVars, bootVars >>

\* -------------------------------------------------------------------- Close

\* Close from srv.mu.Lock() to the end of its body: kill the current process
\* if there is one, clear srv.cmd whatever Kill returned, and keep Kill's
\* error as the result.  Close is called on the *Server NewServer returned.
\* (Variant: srv.cmd kept when Kill returns an error.)
CloseKeepOnError ==
  /\ pc[Closer] = "idle"
  /\ pc[Ctor] = "constructed"
  /\ MuLock(Closer)
  /\ pre' = Snapshot
  /\ IF srvCmd # NoCmd
       THEN \E killErr \in {"", "os: process already finished"} :
              /\ killCalls' = killCalls \cup {srvCmd}
              /\ killRet' = killErr
              /\ closeRet' = killErr
              /\ srvCmd' = IF killErr # "" THEN srvCmd ELSE NoCmd
       ELSE /\ closeRet' = ""
            /\ UNCHANGED << killCalls, killRet, srvCmd >>
  /\ pc' = [pc EXCEPT ![Closer] = "close_unlock"]
  /\ UNCHANGED << localVars, srvOptions, restartEpoch, envVars, ctorErr, srcVars,
                  configFile, baseIDFile, children, releaseCalls,
                  samplerPid, closed, relayVars, bootVars >>
Close ==
  /\ pc[Closer] = "idle"
  /\ pc[Ctor] = "constructed"
  /\ MuLock(Closer)
  /\ pre' = Snapshot
  /\ IF srvCmd # NoCmd
       THEN \E killErr \in {"", "os: process already finished"} :
              /\ killCalls' = killCalls \cup {srvCmd}
              /\ killRet' = killErr
              /\ closeRet' = killErr
              /\ srvCmd' = NoCmd
       ELSE /\ closeRet' = ""
            /\ UNCHANGED << killCalls, killRet, srvCmd >>
  /\ pc' = [pc EXCEPT ![Closer] = "close_unlock"]
  /\ UNCHANGED << localVars, srvOptions, restartEpoch, envVars, ctorErr, srcVars,
                  configFile, baseIDFile, children, releaseCalls,
                  samplerPid, closed, relayVars, bootVars >>

\* The deferred srv.mu.Unlock() of Close, and return err.
CloseUnlock ==
  /\ pc[Closer] = "close_unlock"
  /\ MuUnlock(Closer)
  /\ pc' = [pc EXCEPT ![Closer] = "idle"]
  /\ closed' = TRUE
  /\ killRet' = ""
  /\ closeRet' = ""
  /\ pre' = NoPre
  /\ UNCHANGED << localVars, srvVars, envVars, ctorErr, srcVars, osVars,
                  samplerPid, relayVars, bootVars >>

\* ------------------------------------------------------ runProcessCollector

\* if runtime.GOOS != "linux" { return }; else the ticker is created.
SamplerStart ==
  /\ pc[Sampler] = "start"
  /\ pc' = [pc EXCEPT ![Sampler] = IF GOOS # "linux" THEN "exit" ELSE "tick"]
  /\ UNCHANGED << mu, localVars, srvVars, envVars, ctorErr, srcVars, osVars,
                  samplerPid, closeVars, pre, relayVars, bootVars >>

\* A tick arrives: var pid int; srv.mu.Lock(); the pid of srv.cmd's process
\* is read if there is one.
SamplerReadPid ==
  /\ pc[Sampler] = "tick"
  /\ MuLock(Sampler)
  /\ samplerPid' = IF srvCmd # NoCmd THEN srvCmd ELSE 0
  /\ pc' = [pc EXCEPT ![Sampler] = "unlock"]
  /\ UNCHANGED << localVars, srvVars, envVars, ctorErr, srcVars, osVars,
                  closeVars, pre, relayVars, bootVars >>

\* srv.mu.Unlock() in the collector loop.
SamplerUnlock ==
  /\ pc[Sampler] = "unlock"
  /\ MuUnlock(Sampler)
  /\ pc' = [pc EXCEPT ![Sampler] = "measure"]
  /\ UNCHANGED << localVars, srvVars, envVars, ctorErr, srcVars, osVars,
                  samplerPid, closeVars, pre, relayVars, bootVars >>

\* if pid > 0: whether this tick calls pc.Measure.
\* (Variant: Measure called on every tick.)
ShouldMeasureAlways(pid) == TRUE
ShouldMeasure(pid) == pid > 0

\* The test of pid after the unlock: with a pid the tick goes on to
\* pc.Measure(ctx, pid), without one the loop goes on to its next iteration,
\* whose pid starts at zero again.
SamplerMeasure ==
  /\ pc[Sampler] = "measure"
  /\ IF ShouldMeasure(samplerPid)
       THEN /\ pc' = [pc EXCEPT ![Sampler] = "measuring"]
            /\ UNCHANGED samplerPid
       ELSE /\ pc' = [pc EXCEPT ![Sampler] = "tick"]
            /\ samplerPid' = 0
  /\ UNCHANGED << mu, localVars, srvVars, envVars, ctorErr, srcVars, osVars,
                  closeVars, pre, relayVars, bootVars >>

\* Where the collector goes when pc.Measure has returned: its error is
\* logged and the loop waits for the next tick.
AfterMeasure(err) == "tick"

\* pc.Measure(ctx, pid) returns, with or without an error.
SamplerMeasured ==
  /\ pc[Sampler] = "measuring"
  /\ \E err \in BOOLEAN : pc' = [pc EXCEPT ![Sampler] = AfterMeasure(err)]
  /\ samplerPid' = 0
  /\ UNCHANGED << mu, localVars, srvVars, envVars, ctorErr, srcVars, osVars,
                  closeVars, pre, relayVars, bootVars >>

\* ------------------------------------------------------------ specification

Next ==
  \/ NewServer
  \/ GetConfig
  \/ SourceChange
  \/ \E t \in Updaters : UpdateEnter(t)
  \/ \E t \in Updaters : writeConfig(t)
  \/ \E t \in Updaters : RunPrepare(t)
  \/ \E t \in Updaters : RunStart(t)
  \/ \E t \in Updaters : RunRelease(t)
  \/ \E t \in Updaters : UpdateUnlock(t)
  \/ ChildWritesBaseID
  \/ Close
  \/ CloseUnlock
  \/ SamplerStart
  \/ SamplerReadPid
  \/ SamplerUnlock
  \/ SamplerMeasure
  \/ SamplerMeasured

Spec == Init /\ [][Next]_vars

\* --------------------------------------------------------------- handleLogs

\* Number of s.ReadString('\n') calls that return before the pipe ends.
MaxReads == 3

\* A log line is a sequence of characters and words; a word stands for a run
\* of characters none of which is '-', '"', blank, CR or LF.
LogFormatTag == "[LOG_FORMAT]"
FileLineTag == "[source/server/server.cc:42]"
Quote == "\""

\* What envoy prints for %l, %n and %v of --log-format "[LOG_FORMAT]%l--%n--%v".
EnvoyLevels == {"trace", "debug", "info", "warning", "error", "critical"}
Components == {<<"main">>, <<"my", "-", "component">>, << >>}
PlainMessages == {<<"hello", " ", "world">>, <<"a", "-", "-", "b">>}
Messages == PlainMessages \cup
            {<<FileLineTag, " ", "starting">>, <<Quote, "hi", Quote>>,
             <<Quote, Quote>>, << >>}

\* The line envoy writes for a level, a logger name and a message.
FormatLine(level, name, msg) ==
  <<LogFormatTag, level>> \o <<"-", "-">> \o name \o <<"-", "-">> \o msg

\* Lines that are not in envoy's format: with no "--" or only one, quoted,
\* starting with a [file:line], empty.
PlainRawLines == {<<"hello", " ", "world">>, <<"panic:", " ", "out-of-memory">>,
                  <<LogFormatTag, "info", "-", "-", "main">>}
RawLines == PlainRawLines \cup
            {<<FileLineTag, " ", "starting">>, <<Quote, Quote>>, << >>}

Lines == {FormatLine(l, n, m) : l \in EnvoyLevels, n \in Components, m \in Messages}
           \cup RawLines

\* What s.ReadString('\n') can return: a line up to and including its "\n"
\* with a nil error, or the data read so far with an error, which is io.EOF,
\* os.ErrClosed or some other read error.
ReadResults ==
  {[kind |-> "line", text |-> l \o eol] : l \in Lines, eol \in {<<"\n">>, <<"\r", "\n">>}}
    \cup {[kind |-> k, text |-> d] : k \in {"error", "eof", "closed"},
                                    d \in {<< >>, <<"hello">>}}

\* strings.TrimRight(ln, "\r\n").
RECURSIVE TrimRight(_)
TrimRight(s) ==
  IF s # << >> /\ s[Len(s)] \in {"\r", "\n"}
    THEN TrimRight(SubSeq(s, 1, Len(s) - 1)) ELSE s

\* The index of the first "--" in s at or after i, 0 if there is none.
RECURSIVE IndexSep(_, _)
IndexSep(s, i) ==
  IF i + 1 > Len(s) THEN 0
  ELSE IF s[i] = "-" /\ s[i + 1] = "-" THEN i
  ELSE IndexSep(s, i + 1)

\* strings.SplitN(s, "--", n).
RECURSIVE SplitN(_, _)
SplitN(s, n) ==
  LET i == IndexSep(s, 1)
  IN IF n <= 1 \/ i = 0 THEN <<s>>
     ELSE <<SubSeq(s, 1, i - 1)>> \o SplitN(SubSeq(s, i + 2, Len(s)), n - 1)

\* strings.TrimPrefix(s, "[LOG_FORMAT]").
TrimPrefix(s) == IF s # << >> /\ s[1] = LogFormatTag THEN Tail(s) ELSE s

\* parseLog: the three parts of a line with two "--" separators, three empty
\* strings for any other line.
parseLog(line) ==
  LET parts == SplitN(line, 3)
  IN IF Len(parts) = 3
       THEN [name |-> parts[2], logLevel |-> TrimPrefix(parts[1]), msg |-> parts[3]]
       ELSE [name |-> << >>, logLevel |-> << >>, msg |-> << >>]

\* zerolog.ParseLevel: the names of zerolog's levels are trace, debug, info,
\* warn, error, fatal and panic, and the empty string names NoLevel; any
\* other word is an error.
ZerologLevels == {"trace", "debug", "info", "warn", "error", "fatal", "panic"}
ParseLevel(l) ==
  IF l = << >> THEN [err |-> FALSE, val |-> ""]
  ELSE IF Len(l) = 1 /\ l[1] \in ZerologLevels THEN [err |-> FALSE, val |-> l[1]]
  ELSE [err |-> TRUE, val |-> ""]

\* fileNameAndNumberRE.ReplaceAllString(msg, "\"$2\""): a leading [file:line]
\* and the blank after it are dropped and the rest is put in quotes.
ReplaceFileNameAndNumber(msg) ==
  IF Len(msg) >= 2 /\ msg[1] = FileLineTag /\ msg[2] = " "
    THEN <<Quote>> \o SubSeq(msg, 3, Len(msg)) \o <<Quote>>
    ELSE msg

\* strconv.Unquote: a string in double quotes with no quote between them is
\* what is between them; anything else is an error.
Unquote(msg) ==
  IF /\ Len(msg) >= 2
     /\ msg[1] = Quote
     /\ msg[Len(msg)] = Quote
     /\ \A i \in 2 .. Len(msg) - 1 : msg[i] # Quote
    THEN [err |-> FALSE, val |-> SubSeq(msg, 2, Len(msg) - 1)]
    ELSE [err |-> TRUE, val |-> << >>]

\* The body of handleLogs' loop after a successful read and the trim: the
\* records it logs for the line ln (none when the message ends up empty).
LogRecords(ln) ==
  LET p == parseLog(ln)
      name == IF p.name = << >> THEN <<"envoy">> ELSE p.name
      x == ParseLevel(p.logLevel)
      lvl == IF x.err THEN "debug" ELSE x.val
      msg0 == IF p.msg = << >> THEN ln ELSE p.msg
      msg1 == ReplaceFileNameAndNumber(msg0)
      u == Unquote(msg1)
      msg == IF u.err THEN msg1 ELSE u.val
  IN IF msg = << >> THEN << >>
     ELSE << [name |-> name, level |-> lvl, msg |-> msg] >>

\* Where handleLogs goes after a read: it leaves the loop on io.EOF and
\* os.ErrClosed, sleeps and reads again on any other error, and reads again
\* after a line.  (Variant: the loop left on every error.)
AfterReadStopOnError(kind) == IF kind = "line" THEN "read" ELSE "done"
AfterRead(kind) ==
  IF kind \in {"eof", "closed"} THEN "done"
  ELSE IF kind = "error" THEN "backoff"
  ELSE "read"

\* One iteration of handleLogs' loop from s.ReadString('\n'): the error
\* check, or the trim, bo.Reset() and the logging of the line.  The pipe of
\* a started child delivers at most MaxReads lines and read errors before it
\* ends; a pipe whose two ends were closed only reports its end; a read on a
\* pipe whose write end is open and written by nobody does not return.
RelayRead ==
  /\ rpc = "read"
  /\ pipe # "abandoned"
  /\ \E r \in ReadResults :
       /\ r.kind \in {"line", "error"} => reads < MaxReads
       /\ pipe = "closed" => (r.kind \in {"eof", "closed"} /\ r.text = << >>)
       /\ reads' = reads + 1
       /\ lastRead' = r
       /\ rpc' = AfterRead(r.kind)
       /\ bo' = IF r.kind = "line" THEN 0 ELSE bo
       /\ lastOut' = IF r.kind = "line" THEN LogRecords(TrimRight(r.text)) ELSE << >>
  /\ UNCHANGED << serverVars, pipe, bootVars >>

\* time.Sleep(bo.NextBackOff()); continue.
RelayBackoff ==
  /\ rpc = "backoff"
  /\ bo' = bo + 1
  /\ rpc' = "read"
  /\ UNCHANGED << serverVars, reads, lastRead, lastOut, pipe, bootVars >>

\* The supervisor is not observed: its environment is fixed and none of its
\* threads takes a step.
AtRest ==
  /\ GOOS = "linux"
  /\ Checksum = ""
  /\ binary = "envoy-1.17.1"
  /\ srcCfg = 1
  /\ ~baseIDFile

\* A handleLogs goroutine has just been started on a pipe of a child that
\* cmd.Start() started.
InitRelay ==
  /\ InitServer
  /\ AtRest
  /\ grpcPort = "5443"
  /\ rpc = "read"
  /\ bo = 0
  /\ reads = 0
  /\ lastRead = NoRead
  /\ lastOut = << >>
  /\ pipe = "child"
  /\ BootOff

NextRelay ==
  \/ RelayRead
  \/ RelayBackoff

\* A goroutine that can take a step takes it, and a read on a pipe returns.
SpecRelay ==
  /\ InitRelay
  /\ [][NextRelay]_vars
  /\ WF_vars(RelayRead)
  /\ WF_vars(RelayBackoff)

\* ------------------------------------- handleLogs over the outcomes of run

\* What has become of the pipe run handed to handleLogs, by how run ended:
\* cmd.Start() succeeded and the child holds the write end; cmd.Start()
\* failed and closed both ends of both pipes; or run returned at the error of
\* cmd.StdoutPipe(), after go srv.handleLogs(stderr), and the write end of
\* the stderr pipe is left open in the cmd that run dropped.
PipeOutcomes == {"child", "closed", "abandoned"}

\* The runtime collects the dropped cmd and the finalizer of its *os.File
\* closes the write end.  Nothing in the program makes this happen.
PipeFinalized ==
  /\ pipe = "abandoned"
  /\ pipe' = "closed"
  /\ UNCHANGED << serverVars, rpc, bo, reads, lastRead, lastOut, bootVars >>

InitRelayOfRun ==
  /\ InitServer
  /\ AtRest
  /\ grpcPort = "5443"
  /\ rpc = "read"
  /\ bo = 0
  /\ reads = 0
  /\ lastRead = NoRead
  /\ lastOut = << >>
  /\ pipe \in PipeOutcomes
  /\ BootOff

NextRelayOfRun ==
  \/ RelayRead
  \/ RelayBackoff
  \/ PipeFinalized

\* A goroutine that can take a step takes it, and a read on a pipe that has
\* something to report returns; a finalizer need not ever run.
SpecRelayOfRun ==
  /\ InitRelayOfRun
  /\ [][NextRelayOfRun]_vars
  /\ WF_vars(RelayRead)
  /\ WF_vars(RelayBackoff)

\* ------------------------------------------------- update up to the build

\* Length of the Datadog addresses tried.
MaxAddrLen == 4

\* Datadog addresses: every sequence of at most MaxAddrLen of these
\* characters, and one whose port does not fit 32 bits.
AddrChars == {"h", ":", "8", "1"}
Addresses ==
  UNION {[1 .. n -> AddrChars] : n \in 0 .. MaxAddrLen}
    \cup {<<"h", ":", "4", "2", "9", "4", "9", "6", "7", "2", "9", "6">>}

\* The configurations an update is applied to on its own.
BootConfigs ==
  {[Services |-> sv, ProxyLogLevel |-> "", LogLevel |-> ll, TracingProvider |-> tp,
    EnvoyAdminAddress |-> ad, TracingDatadogAddress |-> dd] :
     sv \in {"all", "proxy"}, ll \in {"", "info"},
     tp \in {"", "datadog", "zipkin", "bogus"},
     ad \in {"127.0.0.1:9901", "nonsense"}, dd \in Addresses}

\* update on a Server that has applied nothing yet, from NewTracingOptions
\* to writeConfig's call of buildBootstrapConfig: with valid tracing options
\* srv.options becomes the projection of the configuration and the document
\* is built from it.
BootUpdate ==
  /\ bootOut = NoBuild
  /\ ~NewTracingOptions(bootCfg).err
  /\ ~CmpEqual(ZeroOptions, ProjectOptions(bootCfg))
  /\ bootOut' = buildBootstrapConfig(bootCfg, ProjectOptions(bootCfg), grpcPort)
  /\ UNCHANGED << serverVars, relayVars, bootCfg >>

InitBoot ==
  /\ InitServer
  /\ AtRest
  /\ RelayOff
  /\ bootCfg \in BootConfigs
  /\ bootOut = NoBuild

NextBoot == BootUpdate

SpecBoot == InitBoot /\ [][NextBoot]_vars

\* ------------------------------------------------------------------- claims

\* Thread t is inside a critical section of srv.mu and pre is its snapshot.
Holds(t) == mu = t /\ pre.set

\* Positions at which a thread is between srv.mu.Lock() and srv.mu.Unlock().
LockedPCs == {"write_config", "run_prepare", "run_start", "run_release",
              "update_unlock", "close_unlock", "unlock"}

\* The errors with which run returns: the spawn (or one of its pipes) failed.
SpawnFailures == {"error creating stderr pipe for envoy",
                  "error creating stdout pipe for envoy",
                  "error starting envoy"}

\* The errors of update before run is reached.
EarlyFailures == {"invalid tracing config", "failed to build envoy config",
                  "failed to write envoy config"}

\* Nothing outside the lock holder's locals differs from its snapshot.
Untouched ==
  /\ srvCmd = pre.cmd
  /\ srvOptions = pre.options
  /\ restartEpoch = pre.epoch
  /\ configFile = pre.file
  /\ Len(children) = pre.spawned
  /\ releaseCalls = pre.released
  /\ killCalls = pre.killed

\* C1: an update call whose configuration has valid tracing options and
\* projects to the serverOptions retained when it took the lock goes straight
\* to its return and changes nothing: no file written, no process spawned or
\* released, handle, options and epoch as they were.
C1_NoChangeIsNoOp ==
  \A t \in Updaters :
    ( /\ Holds(t)
      /\ ~NewTracingOptions(ConfigTable[cfg[t]]).err
      /\ ProjectOptions(ConfigTable[cfg[t]]) = pre.options )
    => /\ pc[t] = "update_unlock"
       /\ res[t] = "no config changes detected"
       /\ Untouched

\* A second delivery of an equal projection arrives while a child is running
\* and is short-circuited.
C1_Witness ==
  \E t \in Callbacks :
    /\ Holds(t)
    /\ res[t] = "no config changes detected"
    /\ pre.cmd # NoCmd
    /\ Len(children) = 1

\* C2: in the restart transition nothing is released before cmd.Start() has
\* returned success and nothing is ever killed; when the spawn or one of its
\* pipes fails the previous handle is still current and was neither released
\* nor killed; after a successful spawn exactly the previous handle (if any)
\* has been released and the new process is current.
C2_ReleaseOnlyAfterSpawn ==
  \A t \in Updaters :
    Holds(t) =>
      /\ killCalls = pre.killed
      /\ pc[t] \in {"write_config", "run_prepare", "run_start"}
           => releaseCalls = pre.released /\ srvCmd = pre.cmd
      /\ res[t] \in SpawnFailures
           => /\ releaseCalls = pre.released
              /\ srvCmd = pre.cmd
              /\ Len(children) = pre.spawned
      /\ pc[t] = "run_release"
           => /\ releaseCalls = pre.released
              /\ Len(children) = pre.spawned + 1
      /\ res[t] = "started"
           => /\ Len(children) = pre.spawned + 1
              /\ srvCmd = children[Len(children)].pid
              /\ releaseCalls = pre.released \cup
                                  (IF pre.cmd = NoCmd THEN {} ELSE {pre.cmd})

\* A spawn fails while a process that itself replaced an earlier one is
\* current.
C2_Witness ==
  \E t \in Updaters :
    /\ Holds(t)
    /\ res[t] = "error starting envoy"
    /\ pre.cmd # NoCmd
    /\ releaseCalls # {}

\* C3: the --restart-epoch values of the children started with a persisted
\* base id are 0, 1, 2, ... in the order in which they were started.
C3_EpochsConsecutive ==
  LET persisted == SelectSeq(children, LAMBDA c : c.args.baseID = "persisted")
  IN \A i \in 1 .. Len(persisted) : persisted[i].args.restartEpoch = i - 1

\* C4: an update call that failed at the tracing options, the bootstrap
\* build or the config-file write has spawned nothing, and the process that
\* was current is still current and was neither released nor killed.
C4_EarlyFailureSpawnsNothing ==
  \A t \in Updaters :
    (Holds(t) /\ res[t] \in EarlyFailures)
    => /\ Len(children) = pre.spawned
       /\ srvCmd = pre.cmd
       /\ releaseCalls = pre.released
       /\ killCalls = pre.killed

\* The bootstrap build fails (malformed admin address or control-plane port)
\* while a process is running.
C4_Witness ==
  \E t \in Updaters :
    /\ Holds(t)
    /\ res[t] = "failed to build envoy config"
    /\ pre.cmd # NoCmd
    /\ pc[t] = "update_unlock"

\* C5: an update call that returns after a bootstrap build failure, a
\* config-file write failure or a spawn failure leaves the current handle,
\* the retained serverOptions and the restart epoch as they were.
C5_FailedAttemptPreservesState ==
  \A t \in Updaters :
    ( /\ Holds(t)
      /\ pc[t] = "update_unlock"
      /\ res[t] \in (EarlyFailures \cup SpawnFailures) \ {"invalid tracing config"} )
    => /\ srvCmd = pre.cmd
       /\ srvOptions = pre.options
       /\ restartEpoch = pre.epoch

\* C6: when Close is about to return, srv.cmd is nil and nothing was
\* released; if a process was current, Kill was called on exactly that
\* process and Close returns what Kill returned; if none was, nothing was
\* killed and Close returns nil.
C6_CloseKillsCurrent ==
  (pc[Closer] = "close_unlock" /\ Holds(Closer))
  => /\ srvCmd = NoCmd
     /\ releaseCalls = pre.released
     /\ Len(children) = pre.spawned
     /\ IF pre.cmd # NoCmd
          THEN killCalls = pre.killed \cup {pre.cmd} /\ closeRet = killRet
          ELSE killCalls = pre.killed /\ closeRet = ""

\* Close meets a running process whose Kill reports an error.
C6_Witness ==
  /\ pc[Closer] = "close_unlock"
  /\ Holds(Closer)
  /\ pre.cmd # NoCmd
  /\ closeRet # ""

\* C7: an update call whose notification was delivered after a call of Close
\* had returned spawns no child.
C7_ClosedIsTerminal ==
  \A t \in Callbacks :
    (lateCall[t] /\ Holds(t)) => Len(children) = pre.spawned

\* C8: when a checksum is configured and the binary's digest differs from
\* it, NewServer fails; whenever NewServer fails no Server is returned, no
\* callback is registered, the collector is not started and no child is
\* ever spawned; with no checksum configured NewServer never fails at the
\* verification.
C8_ConstructionFailsClosed ==
  /\ (pc[Ctor] # "new" /\ Checksum # "" /\ Sha256Hex(binary) # Checksum)
       => ctorErr # ""
  /\ ctorErr # ""
       => /\ pc[Ctor] = "failed"
          /\ ~registered
          /\ pc[Sampler] = "off"
          /\ \A t \in Callbacks : pc[t] = "idle"
          /\ children = << >>
          /\ srvCmd = NoCmd
  /\ Checksum = ""
       => ctorErr \notin {"invalid envoy binary",
                          "error reading envoy binary for checksum verification"}

\* NewServer has refused a binary whose digest is not the configured one.
C8_Witness ==
  /\ pc[Ctor] = "failed"
  /\ ctorErr = "invalid envoy binary"
  /\ Checksum # ""
  /\ Sha256Hex(binary) # Checksum

\* C9: the config file never holds a partial document; while an update call
\* is in run, the file holds the complete document that this call built from
\* its own configuration; so every child was started with the file holding
\* the document of the call that started it.
C9_SpawnAfterAtomicWrite ==
  /\ configFile.state # "partial"
  /\ \A t \in Updaters :
       (mu = t /\ pc[t] \in {"run_prepare", "run_start", "run_release"})
       => /\ ldoc[t].state = "complete"
          /\ ldoc[t] = buildBootstrapConfig(ConfigTable[cfg[t]],
                                          ProjectOptions(ConfigTable[cfg[t]]),
                                          grpcPort).doc
          /\ configFile = ldoc[t]
  /\ \A i \in 1 .. Len(children) :
       /\ children[i].doc.state = "complete"
       /\ children[i].file = children[i].doc

\* A child has just been started after its update call replaced an older
\* complete document by a different one.
C9_Witness ==
  \E t \in Updaters :
    /\ Holds(t)
    /\ pc[t] = "run_release"
    /\ pre.file.state = "complete"
    /\ configFile # pre.file
    /\ children[Len(children)].file = configFile

\* C10: a thread is between Lock and Unlock only as the holder of srv.mu, at
\* most one thread is (so at most one restart transition is in progress),
\* and srv.options, srv.cmd and srv.restartEpoch change only in steps of the
\* thread that holds srv.mu.
C10_StateOnlyUnderLock ==
  /\ [](/\ \A t \in Threads : pc[t] \in LockedPCs => mu = t
        /\ Cardinality({t \in Threads : pc[t] \in LockedPCs}) <= 1)
  /\ [][srvVars' # srvVars
          => /\ mu' \in Threads
             /\ mu \in {Free, mu'}
             /\ pc'[mu'] \in LockedPCs]_vars

\* A restart transition is about to spawn while another update call and the
\* collector's tick are waiting for the lock.
C10_Witness ==
  \E t \in Updaters, u \in Updaters :
    /\ t # u
    /\ pc[t] = "run_start"
    /\ mu = t
    /\ pc[u] = "update_lock"
    /\ pc[Sampler] = "tick"

\* C11: handleLogs ends exactly when a read has reported io.EOF or
\* os.ErrClosed, never because of another read error: after such an error it
\* waits for the next backoff interval and reads again, and after every
\* successful read its backoff is reset; on a pipe that ends (as the pipes of
\* a child that terminates do) handleLogs eventually ends.
C11_RelayEndsOnlyAtEndOfStream ==
  /\ [](rpc = "done" <=> lastRead.kind \in {"eof", "closed"})
  /\ [][reads' # reads /\ lastRead'.kind = "error" => rpc' = "backoff"]_vars
  /\ [][rpc = "backoff" => rpc' = "read" /\ bo' = bo + 1]_vars
  /\ [](lastRead.kind = "line" => bo = 0)
  /\ [](rpc = "backoff" => <>(rpc = "read"))
  /\ <>(rpc = "done")

\* handleLogs has ended at the end of the stream after two read errors in a
\* row.
C11_Witness ==
  /\ rpc = "done"
  /\ lastRead.kind = "eof"
  /\ bo = 2

\* The pids of the processes cmd.Start() has started.
Pids == {children[i].pid : i \in 1 .. Len(children)}

\* What C12 says of the collector apart from when it samples: the pid is
\* read while the collector holds srv.mu and is that of the current process
\* (zero when there is none); whatever pc.Measure returns, the collector
\* waits for its next tick; on a platform other than linux it ends before
\* its first tick, on linux it never ends.
CollectorTicks ==
  /\ [](pc[Sampler] = "unlock" => (mu = Sampler /\ samplerPid = srvCmd))
  /\ [](GOOS # "linux" => (pc[Sampler] \in {"off", "start", "exit"} /\ samplerPid = 0))
  /\ [](GOOS = "linux" => pc[Sampler] # "exit")
  /\ [][pc[Sampler] = "measuring" /\ pc'[Sampler] # "measuring"
         => pc'[Sampler] = "tick"]_vars

\* C12 (as claimed): the collector reads the pid under srv.mu on every tick
\* and calls pc.Measure only while a process is current, never in Idle or
\* after Close has cleared srv.cmd; a Measure error does not stop the ticks;
\* off linux the collector ends without a tick.
C12_SamplesOnlyWhileCurrent ==
  /\ CollectorTicks
  /\ [](pc[Sampler] = "measuring" => srvCmd # NoCmd)

\* C12 (amended): the collector reads the pid under srv.mu on every tick and
\* calls pc.Measure exactly when the pid it read is not zero, that is when a
\* process was current at the time of the read; the call is made after the
\* lock is released, on that pid, so it can still sample a process that
\* Close has killed or a restart has released since the read, once; a tick
\* that reads in Idle or after Close cleared srv.cmd does not sample.
C12_SamplesWhatItRead ==
  /\ CollectorTicks
  /\ [](pc[Sampler] = "measuring" => (samplerPid > 0 /\ samplerPid \in Pids))
  /\ [][pc[Sampler] = "measure" /\ pc'[Sampler] # "measure"
         => (pc'[Sampler] = "measuring" <=> samplerPid > 0)]_vars
  /\ [][pc[Sampler] = "tick" /\ pc'[Sampler] # "tick" /\ srvCmd = NoCmd
         => samplerPid' = 0]_vars

\* pc.Measure is running on the pid of a process that Close killed, and whose
\* handle it cleared, after the collector had read the pid.
C12_Witness ==
  /\ pc[Sampler] = "measuring"
  /\ srvCmd = NoCmd
  /\ samplerPid \in killCalls
  /\ closed

\* The line handleLogs has just read, without its end of line, if it is l.
JustRead(l) ==
  /\ lastRead.kind = "line"
  /\ \E eol \in {<<"\n">>, <<"\r", "\n">>} : lastRead.text = l \o eol

\* The zerolog level that envoy's level name stands for (critical, which has
\* no counterpart of its own, is left out).
NamedLevel(l) == IF l = "warning" THEN "warn" ELSE l

\* C13: for a line "[LOG_FORMAT]<level>--<component>--<message>" handleLogs
\* logs one record with that component as its name, the level <level> names
\* and that message (taken for messages the unquoting of lines 460-463
\* leaves alone); so "[LOG_FORMAT]warning--my-component--hello world" gives
\* name my-component, level warn, message "hello world".
C13_FormattedLineDecoded ==
  \A l \in EnvoyLevels \ {"critical"}, n \in Components \ {<< >>}, m \in PlainMessages :
    JustRead(FormatLine(l, n, m))
      => lastOut = << [name |-> n, level |-> NamedLevel(l), msg |-> m] >>

\* C14: for a line that is not empty and has fewer than two "--" handleLogs
\* logs one record with the name "envoy", the level debug and the whole line
\* as its message (taken for lines the unquoting of lines 460-463 leaves
\* alone).
C14_UnformattedLineDefaults ==
  \A l \in PlainRawLines :
    JustRead(l) => lastOut = << [name |-> <<"envoy">>, level |-> "debug", msg |-> l] >>

\* C15: whenever writeConfig has built a document, its static resources hold
\* the control-plane cluster followed by the datadog-apm cluster when the
\* tracing provider of the configuration being applied is datadog, and the
\* control-plane cluster alone for every other provider; every child was
\* started on a document of one or two clusters.
C15_ClustersFollowAppliedProvider ==
  /\ \A t \in Updaters :
       (mu = t /\ ldoc[t].state = "complete")
       => LET names == [i \in 1 .. Len(ldoc[t].clusters) |-> ldoc[t].clusters[i].name]
          IN IF ConfigTable[cfg[t]].TracingProvider = "datadog"
               THEN names = <<"pomerium-control-plane-grpc", "datadog-apm">>
               ELSE names = <<"pomerium-control-plane-grpc">>
  /\ \A i \in 1 .. Len(children) : Len(children[i].doc.clusters) \in {1, 2}

\* A document with the collector cluster has been built while a process
\* started without tracing is running.
C15_Witness ==
  \E t \in Updaters :
    /\ Holds(t)
    /\ ldoc[t].state = "complete"
    /\ Len(ldoc[t].clusters) = 2
    /\ pre.cmd # NoCmd
    /\ pre.options.tracingOptions.Provider = ""

\* A host:port override is well formed when it has exactly one colon and
\* what follows the colon is a number that fits 32 bits.
WellFormedAt(dd, i) ==
  /\ dd[i] = ":"
  /\ \A j \in 1 .. Len(dd) : dd[j] = ":" => j = i
  /\ ~ParseUint32(SubSeq(dd, i + 1, Len(dd))).err

\* C19: when the provider is datadog the build never fails because of the
\* Datadog address, and the endpoint of the datadog-apm cluster is the host
\* and port of a well-formed override and 127.0.0.1:8126 in every other case:
\* no override, an override that does not split into host and port, or one
\* whose port is not a valid number.
C19_CollectorEndpoint ==
  (bootOut # NoBuild /\ bootCfg.TracingProvider = "datadog")
  => LET dd == bootCfg.TracingDatadogAddress
     IN /\ bootOut.err => (bootCfg.EnvoyAdminAddress = "nonsense" \/ grpcPort = "grpc")
        /\ ~bootOut.err =>
             /\ Len(bootOut.doc.clusters) = 2
             /\ \A i \in 1 .. Len(dd) :
                  WellFormedAt(dd, i)
                  => bootOut.doc.clusters[2].endpoint =
                       [address |-> SubSeq(dd, 1, i - 1),
                        port |-> ParseUint32(SubSeq(dd, i + 1, Len(dd))).val]
             /\ (\A i \in 1 .. Len(dd) : ~WellFormedAt(dd, i))
                  => bootOut.doc.clusters[2].endpoint =
                       [address |-> Localhost, port |-> 8126]

\* C16: srv.cmd is nil or the one started process that was neither released
\* nor killed, and every process cmd.Start() ever started is the current
\* one, or was released when a later started process took its place, or was
\* killed by Close; the only other started process there can be is the one
\* the restart transition in progress has just started and is about to
\* make current, under the lock.
C16_EveryChildSupervised ==
  LET starting == {lcmd[t].pid : t \in {u \in Updaters : mu = u /\ pc[u] = "run_release"}}
  IN /\ srvCmd # NoCmd => srvCmd \in Pids \ (releaseCalls \cup killCalls \cup starting)
     /\ Cardinality(starting) <= 1
     /\ \A i \in 1 .. Len(children) :
          LET p == children[i].pid
          IN \/ p = srvCmd
             \/ /\ p \in releaseCalls
                /\ \E j \in i + 1 .. Len(children) : children[j].prev = p
             \/ p \in killCalls
             \/ p \in starting

\* Of three processes started, the first two were released for their
\* successors and the third was killed by Close.
C16_Witness ==
  /\ Len(children) = 3
  /\ releaseCalls = {1, 2}
  /\ killCalls = {3}
  /\ srvCmd = NoCmd

\* C17: when run chooses the child's arguments, with a persisted base id
\* they are --base-id and --restart-epoch with the value srv.restartEpoch
\* has, and srv.restartEpoch is then incremented; without one they are
\* --use-dynamic-base-id and --base-id-path, with no --restart-epoch, and
\* srv.restartEpoch is left alone; srv.restartEpoch changes nowhere else,
\* and a child is started with the arguments so chosen.
C17_IdentityFromPersistedBaseID ==
  /\ [][\A t \in Updaters :
          (pc[t] = "run_prepare" /\ pc'[t] # "run_prepare")
          => IF baseIDFile
               THEN /\ lcmd'[t].baseID = "persisted"
                    /\ lcmd'[t].restartEpoch = restartEpoch
                    /\ restartEpoch' = restartEpoch + 1
               ELSE /\ lcmd'[t].baseID = "dynamic"
                    /\ lcmd'[t].restartEpoch = -1
                    /\ restartEpoch' = restartEpoch]_vars
  /\ [][restartEpoch' # restartEpoch
          => \E t \in Updaters : mu = t /\ pc[t] = "run_prepare"]_vars
  /\ [][\A t \in Updaters :
          (pc[t] = "run_start" /\ pc'[t] = "run_release")
          => /\ children'[Len(children')].args.baseID = lcmd[t].baseID
             /\ children'[Len(children')].args.restartEpoch = lcmd[t].restartEpoch]_vars
  /\ [](\A i \in 1 .. Len(children) :
          \/ children[i].args.baseID = "persisted" /\ children[i].args.restartEpoch >= 0
          \/ children[i].args.baseID = "dynamic" /\ children[i].args.restartEpoch = -1)

\* A first child was started with a dynamic base id, which it persisted, and
\* its successor with the persisted base id and epoch 0.
C17_Witness ==
  /\ Len(children) = 2
  /\ children[1].args.baseID = "dynamic"
  /\ children[2].args.baseID = "persisted"
  /\ children[2].args.restartEpoch = 0
  /\ restartEpoch = 1

\* C18: NewServer fails only with the errors of the working directory, the
\* binary lookup and the checksum, before the callback is registered; once
\* past them it returns the Server with the callback registered whatever
\* its own update call met.  When that call fails (tracing options, build,
\* write or spawn) it has started nothing, so that without a notification in
\* between no process is current; and an update call that finds no process,
\* with valid tracing options and a projection other than the retained one,
\* is not stopped at the gate.
C18_InitialConfigNeverFailsConstruction ==
  /\ pc[Ctor] = "failed" <=> ctorErr # ""
  /\ ctorErr \in {"", "error creating temporary working directory for envoy",
                  "no envoy binary found", "invalid envoy binary",
                  "error reading envoy binary for checksum verification"}
  /\ pc[Ctor] \notin {"new", "failed"} => registered
  /\ (Holds(Ctor) /\ res[Ctor] \in EarlyFailures \cup SpawnFailures)
       => /\ srvCmd = pre.cmd
          /\ Len(children) = pre.spawned
          /\ changes = 0 => (srvCmd = NoCmd /\ children = << >>)
  /\ \A t \in Updaters :
       ( /\ Holds(t)
         /\ pre.cmd = NoCmd
         /\ ~NewTracingOptions(ConfigTable[cfg[t]]).err
         /\ ProjectOptions(ConfigTable[cfg[t]]) # pre.options )
       => /\ res[t] \notin {"invalid tracing config", "no config changes detected"}
          /\ pc[t] = "update_unlock" => res[t] # ""

\* NewServer has returned a Server whose own update call spawned nothing
\* after it had retained its options, and the first notification has
\* started the first process.
C18_Witness ==
  \E t \in Callbacks :
    /\ pc[Ctor] = "constructed"
    /\ changes = 1
    /\ Holds(t)
    /\ pre.options # ZeroOptions
    /\ pre.spawned = 0
    /\ res[t] = "started"
    /\ srvCmd = 1

\* C20: an update call that finds the Server as &Server{...} left it (no
\* process, srv.options at its zero value) and whose configuration has valid
\* tracing options is never stopped at the cmp.Equal gate: the log level of
\* the options it retains is not empty, so they differ from the zero value,
\* and the call goes on to writeConfig and run.
C20_FirstUpdatePassesGate ==
  \A t \in Updaters :
    ( /\ Holds(t)
      /\ pre.options = ZeroOptions
      /\ pre.cmd = NoCmd
      /\ ~NewTracingOptions(ConfigTable[cfg[t]]).err )
    => /\ res[t] # "no config changes detected"
       /\ srvOptions.logLevel # ""
       /\ srvOptions # ZeroOptions
       /\ lopt[t] = srvOptions
       /\ \/ pc[t] \in {"write_config", "run_prepare", "run_start", "run_release"}
          \/ pc[t] = "update_unlock"
               /\ res[t] \in (EarlyFailures \cup SpawnFailures \cup {"started"})

\* The first notification finds the Server still untouched (NewServer's own
\* update call met invalid tracing options) and, for a configuration that
\* sets no log level at all, has started the first process.
C20_Witness ==
  \E t \in Callbacks :
    /\ Holds(t)
    /\ pre.options = ZeroOptions
    /\ pre.cmd = NoCmd
    /\ ConfigTable[cfg[t]].ProxyLogLevel = ""
    /\ ConfigTable[cfg[t]].LogLevel = ""
    /\ res[t] = "started"
    /\ children[1].args.logLevel = "debug"

\* C21: once NewServer has returned and no callback is running, if the
\* configuration the source holds has valid tracing options then srv.options
\* is its projection, however NewServer's own update call and the callbacks
\* delivered after the registration were interleaved.
C21_RetainedOptionsAreTheLatest ==
  ( /\ pc[Ctor] = "constructed"
    /\ \A t \in Callbacks : pc[t] = "idle"
    /\ ~NewTracingOptions(ConfigTable[srcCfg]).err )
  => srvOptions = ProjectOptions(ConfigTable[srcCfg])

\* C22: every line that is not empty gives exactly one log record, also a
\* last line that the end of the stream follows without a newline (taken for
\* lines the unquoting of lines 460-463 leaves alone); and a handleLogs
\* goroutine ends, whether run started the child or failed at cmd.Start()
\* or at a pipe before it.
C22_EveryLineRelayedAndRelaysEnd ==
  /\ [](\A l \in PlainRawLines \cup
                 {FormatLine(v, n, m) : v \in EnvoyLevels, n \in Components,
                                        m \in PlainMessages} :
          JustRead(l) => Len(lastOut) = 1)
  /\ []((lastRead.kind = "eof" /\ lastRead.text # << >>) => Len(lastOut) = 1)
  /\ <>(rpc = "done")

====
